---- MODULE Spec2Model ----
(***************************************************************************)
(* BPM server (SQLite-backed): the relational store (tickets, activity,    *)
(* settings), the HTTP request handler with its await points, and the AI   *)
(* prompt proxy.                                                           *)
(*                                                                         *)
(* Conventions of the model.                                               *)
(*  - A JSON object is a function from its keys to values; an absent key   *)
(*    (undefined) is a key outside the DOMAIN; JSON null is NULL.          *)
(*  - A pathname is the sequence of its "/"-separated parts, which is what *)
(*    split("/") yields: "/api/data" is <<"", "api", "data">>.             *)
(*  - ISO timestamps of clock readings are toISOString(c) for a reading c. *)
(*  - The activity table is the sequence of its rows in rowid_ order       *)
(*    (AUTOINCREMENT: a new row is always last).                           *)
(*  - The event loop runs one synchronous stretch of a handler at a time:  *)
(*    an action is one such stretch (up to the next await or the return).  *)
(***************************************************************************)
EXTENDS Integers, Sequences, FiniteSets, TLC

VARIABLES
  tickets,     \* tickets table: id -> row
  activity,    \* activity table: rows in rowid_ order
  settings,    \* settings table: key -> value
  clock,       \* the wall clock read by new Date()
  req_method,  \* the module-level `let req_method`
  pc,          \* per in-flight request: where its handler is suspended
  req,         \* per in-flight request: the request, its route and params
  ai,          \* per in-flight request: the outbound HTTPS call and its promise
  res,         \* the response written by the last step (NoRes: none)
  log          \* history: activity entries inserted since the table was last empty

vars == <<tickets, activity, settings, clock, req_method, pc, req, ai, res, log>>

(***************************************************************************)
(* Bounds of the model.                                                    *)
(***************************************************************************)
MaxClock == 1
MaxActivityRows == 2
MaxSecretLen == 5
MaxAppend == 102

(***************************************************************************)
(* Program constants.                                                      *)
(***************************************************************************)
ActivityLimit == 100
HintLen == 4

Procs == {1, 2}
NULL == "null"

(***************************************************************************)
(* JavaScript value helpers.                                               *)
(***************************************************************************)
Has(o, k) == k \in DOMAIN o

\* the object {} and the table without rows
EmptyTable == [k \in {} |-> k]

\* truthiness of a string-or-null value
Truthy(v) == v # "" /\ v # NULL

\* o[k] || d
Or(o, k, d) == IF Has(o, k) /\ Truthy(o[k]) THEN o[k] ELSE d

\* o[k] ?? d
CoalesceMutant(o, k, d) == IF Has(o, k) /\ o[k] # NULL THEN o[k] ELSE ""

Coalesce(o, k, d) == IF Has(o, k) /\ o[k] # NULL THEN o[k] ELSE d

toISOString(c) == ToString(c)

Min(a, b) == IF a <= b THEN a ELSE b
Max(a, b) == IF a >= b THEN a ELSE b

\* A synchronous stretch numbers the places where it may call new Date()
\* (slots); o[k] || new Date() calls it only when o[k] is falsy.  The clock
\* ticks at most once during a stretch, right after the call in slot tickAt
\* (0: before the first).  Reading(i, tickAt) is what the call in slot i reads.
Reading(i, tickAt) == IF i > tickAt /\ clock < MaxClock THEN clock + 1 ELSE clock

\* the slots 2i-1, 2i (createdAt, updatedAt of the i-th ticket) and 2n+j (time
\* of the j-th activity entry) in which new Date() is called
Called(ts, as) ==
  {2 * i - 1 : i \in {i \in 1..Len(ts) : Or(ts[i], "createdAt", "") = ""}}
  \cup {2 * i : i \in {i \in 1..Len(ts) : Or(ts[i], "updatedAt", "") = ""}}
  \cup {2 * Len(ts) + j : j \in {j \in 1..Len(as) : Or(as[j], "time", "") = ""}}

\* the clock after the stretch: the last reading made, if any
ClockAfter(called, tickAt) ==
  IF \E s \in called : s > tickAt THEN Reading(tickAt + 1, tickAt) ELSE clock

(***************************************************************************)
(* Prepared statements: tickets.                                           *)
(***************************************************************************)
TicketFields == {"title", "description", "type", "priority", "status",
                 "area", "subarea", "assignee", "files"}

\* the parameter object of insertTicket.run (POST /api/tickets and bulkSync)
InsertParams(t, c1, c2) ==
  [id |-> t.id,
   title |-> Or(t, "title", ""),
   description |-> Or(t, "description", ""),
   type |-> Or(t, "type", "feature"),
   priority |-> Or(t, "priority", "medium"),
   status |-> Or(t, "status", "open"),
   area |-> Or(t, "area", ""),
   subarea |-> Or(t, "subarea", ""),
   assignee |-> Or(t, "assignee", ""),
   files |-> Or(t, "files", ""),
   createdAt |-> Or(t, "createdAt", toISOString(c1)),
   updatedAt |-> Or(t, "updatedAt", toISOString(c2))]

\* insertTicket.run throws when id is undefined (it cannot be bound) and when
\* the primary key is taken
InsertTicketThrows(tbl, t) == ~Has(t, "id") \/ t.id \in DOMAIN tbl

InsertTicket(tbl, t, c1, c2) == tbl @@ (t.id :> InsertParams(t, c1, c2))

\* the row updateTicket leaves: the handler's parameter object written over
\* the existing row, id and createdAt not being SET
UpdatedRowMutant(existing, t, now) ==
  InsertParams([id |-> existing.id] @@ t, now, now)

UpdatedRow(existing, t, now) ==
  [id |-> existing.id,
   title |-> Coalesce(t, "title", existing.title),
   description |-> Coalesce(t, "description", existing.description),
   type |-> Coalesce(t, "type", existing.type),
   priority |-> Coalesce(t, "priority", existing.priority),
   status |-> Coalesce(t, "status", existing.status),
   area |-> Coalesce(t, "area", existing.area),
   subarea |-> Coalesce(t, "subarea", existing.subarea),
   assignee |-> Coalesce(t, "assignee", existing.assignee),
   files |-> Coalesce(t, "files", existing.files),
   createdAt |-> existing.createdAt,
   updatedAt |-> Or(t, "updatedAt", toISOString(now))]

DeleteTicket(tbl, id) == [k \in DOMAIN tbl \ {id} |-> tbl[k]]

\* allTickets.all(): the rows (their order among equal createdAt is not fixed
\* by the query; the model keeps the rows as a set)
AllTickets == {tickets[k] : k \in DOMAIN tickets}

(***************************************************************************)
(* Prepared statements: activity.                                          *)
(***************************************************************************)
ActivityColumns == {"action", "ticketId", "title", "time"}

\* insertActivity.run(a) throws when a named parameter is missing and when a
\* NOT NULL column would be null
InsertActivityThrows(a) ==
  \/ ~(ActivityColumns \subseteq DOMAIN a)
  \/ a.action = NULL \/ a.title = NULL \/ a.time = NULL

InsertActivity(rows, a) ==
  Append(rows, [action |-> a.action, ticketId |-> a.ticketId,
                title |-> a.title, time |-> a.time])

LastN(s, n) == SubSeq(s, Max(1, Len(s) - n + 1), Len(s))

Reverse(s) == [i \in 1..Len(s) |-> s[Len(s) + 1 - i]]

\* trimActivity: keep the ActivityLimit rows of highest rowid_
TrimActivityMutant(rows) == SubSeq(rows, 1, Min(Len(rows), ActivityLimit))

TrimActivity(rows) == LastN(rows, ActivityLimit)

\* recentActivity.all(): ORDER BY rowid_ DESC LIMIT 100
RecentActivity(rows) == Reverse(LastN(rows, ActivityLimit))

(***************************************************************************)
(* Route matching.                                                         *)
(***************************************************************************)
Lit(s) == [param |-> FALSE, text |-> s]
Param(n) == [param |-> TRUE, text |-> n]

\* "/api/tickets/:id".split("/"); a part that startsWith(":") is a Param
TicketPattern == <<Lit(""), Lit("api"), Lit("tickets"), Param("id")>>

NoParams == EmptyTable
NoMatch == [matched |-> FALSE, params |-> NoParams]

decodeURIComponent(s) == IF s = "%61" THEN "a" ELSE s

RECURSIVE MatchParts(_, _, _, _)
MatchParts(patternParts, pathParts, i, params) ==
  IF i > Len(patternParts) THEN [matched |-> TRUE, params |-> params]
  ELSE IF patternParts[i].param
    THEN MatchParts(patternParts, pathParts, i + 1,
           (patternParts[i].text :> decodeURIComponent(pathParts[i])) @@ params)
  ELSE IF patternParts[i].text # pathParts[i] THEN NoMatch
  ELSE MatchParts(patternParts, pathParts, i + 1, params)

\* matchRoute(method, pathname, pattern); rm is the value of the module-level
\* req_method when it is called
matchRoute(rm, method, pathParts, patternParts) ==
  IF rm # method THEN NoMatch
  ELSE IF Len(patternParts) # Len(pathParts) THEN NoMatch
  ELSE MatchParts(patternParts, pathParts, 1, NoParams)

Path(a, b) == <<"", a, b>>

\* the if-chain of the request handler, up to the handler it selects
Dispatch(r, rm) ==
  LET pathname == r.path
      at(route) == [route |-> route, m |-> NoParams]
      mPut == matchRoute(rm, "PUT", pathname, TicketPattern)
      mDel == matchRoute(rm, "DELETE", pathname, TicketPattern)
  IN
  IF pathname = <<"", "">> /\ r.method = "GET" THEN at("GET /")
  ELSE IF pathname = Path("api", "data") /\ r.method = "GET" THEN at("GET /api/data")
  ELSE IF pathname = Path("api", "data") /\ r.method = "PUT" THEN at("PUT /api/data")
  ELSE IF pathname = Path("api", "tickets") /\ r.method = "GET" THEN at("GET /api/tickets")
  ELSE IF pathname = Path("api", "tickets") /\ r.method = "POST" THEN at("POST /api/tickets")
  ELSE IF mPut.matched THEN [route |-> "PUT /api/tickets/:id", m |-> mPut.params]
  ELSE IF mDel.matched THEN [route |-> "DELETE /api/tickets/:id", m |-> mDel.params]
  ELSE IF pathname = Path("api", "activity") /\ r.method = "GET" THEN at("GET /api/activity")
  ELSE IF pathname = Path("api", "settings") /\ r.method = "GET" THEN at("GET /api/settings")
  ELSE IF pathname = Path("api", "settings") /\ r.method = "PUT" THEN at("PUT /api/settings")
  ELSE IF pathname = <<"", "api", "ai", "prompt">> /\ r.method = "POST" THEN at("POST /api/ai/prompt")
  ELSE IF pathname = <<"", "health">> /\ r.method = "GET" THEN at("GET /health")
  ELSE at("404")

\* the routes whose handler awaits parseBody before anything else
BodyRoutes == {"PUT /api/data", "POST /api/tickets", "PUT /api/tickets/:id",
               "DELETE /api/tickets/:id", "PUT /api/settings", "POST /api/ai/prompt"}

(***************************************************************************)
(* The request handler.                                                    *)
(***************************************************************************)
NoReq == [route |-> "none"]
NoRes == [to |-> 0, route |-> "none", status |-> 0]
NoCall == [calls |-> 0, sent |-> 0]

\* sendJSON(res, status, body) followed by the handler's return
Reply(p, status, body) ==
  /\ res' = [to |-> p, route |-> req[p].route, req |-> req[p].req,
             status |-> status, body |-> body]
  /\ pc' = [pc EXCEPT ![p] = "idle"]
  /\ req' = [req EXCEPT ![p] = NoReq]

\* the catch of the request handler: sendJSON(res, 500, { error: err.message })
Catch(p, message) == Reply(p, 500, [error |-> message])

\* the module-level req_method as matchRoute reads it: the handler assigned
\* it (req_method = req.method) earlier in the same synchronous stretch
RoutingMethodMutant == req_method

RoutingMethod == req_method'

\* a handler that answers without awaiting: the response to request r
Answer(p, r, route, status, body) ==
  /\ pc[p] = "idle"
  /\ req_method' = r.method
  /\ Dispatch(r, RoutingMethod).route = route
  /\ res' = [to |-> p, route |-> route, req |-> r, status |-> status, body |-> body]
  /\ UNCHANGED <<tickets, activity, settings, clock, pc, req, ai, log>>

\* a request arrives: req_method = req.method, the if-chain, await parseBody(req)
Receive(p, r) ==
  /\ pc[p] = "idle"
  /\ req_method' = r.method
  /\ Dispatch(r, RoutingMethod).route \in BodyRoutes
  /\ pc' = [pc EXCEPT ![p] = "parseBody"]
  /\ req' = [req EXCEPT ![p] = [route |-> Dispatch(r, RoutingMethod).route,
                                m |-> Dispatch(r, RoutingMethod).m, req |-> r]]
  /\ ai' = [ai EXCEPT ![p] = NoCall]
  /\ res' = NoRes
  /\ UNCHANGED <<tickets, activity, settings, clock, log>>

\* the wall clock advances
Tick ==
  /\ clock < MaxClock
  /\ clock' = clock + 1
  /\ res' = NoRes
  /\ UNCHANGED <<tickets, activity, settings, req_method, pc, req, ai, log>>

Resumes(p, route) == pc[p] = "parseBody" /\ req[p].route = route

\* if (t._activity) { insertActivity.run(t._activity); trimActivity.run(); }
\* then sendJSON(status, body); tbl is the tickets table the statement before left
LogActivity(p, t, tbl, status, body) ==
  IF ~Has(t, "_activity")
    THEN tickets' = tbl /\ UNCHANGED <<activity, log>> /\ Reply(p, status, body)
  ELSE IF InsertActivityThrows(t["_activity"])
    THEN tickets' = tbl /\ UNCHANGED <<activity, log>>
         /\ Catch(p, "Missing named parameter")
  ELSE /\ tickets' = tbl
       /\ activity' = TrimActivity(InsertActivity(activity, t["_activity"]))
       /\ log' = InsertActivity(log, t["_activity"])
       /\ Reply(p, status, body)

\* if (!existing) { sendJSON(res, 404, { error: "Ticket not found" }); return; }
TicketNotFoundMutant(p) ==
  LogActivity(p, req[p].req.body, tickets, 404, [error |-> "Ticket not found"])

TicketNotFound(p) ==
  Reply(p, 404, [error |-> "Ticket not found"]) /\ UNCHANGED <<tickets, activity, log>>

\* POST /api/tickets, after await parseBody
PostTicket(p) ==
  /\ Resumes(p, "POST /api/tickets")
  /\ \E tickAt \in {0} \cup Called(<<req[p].req.body>>, << >>) :
       LET t == req[p].req.body
           c1 == Reading(1, tickAt)
           c2 == Reading(2, tickAt)
           tbl == InsertTicket(tickets, t, c1, c2)
       IN
       /\ clock' = ClockAfter(Called(<<t>>, << >>), tickAt)
       /\ IF ~req[p].req.bodyOk
            THEN Catch(p, "Invalid JSON body") /\ UNCHANGED <<tickets, activity, log>>
          ELSE IF InsertTicketThrows(tickets, t)
            THEN Catch(p, "insertTicket failed") /\ UNCHANGED <<tickets, activity, log>>
          ELSE LogActivity(p, t, tbl, 201, tbl[t.id])
  /\ UNCHANGED <<settings, req_method, ai>>

\* PUT /api/tickets/:id, after await parseBody
PutTicket(p) ==
  /\ Resumes(p, "PUT /api/tickets/:id")
  /\ LET t == req[p].req.body
         id == req[p].m.id
         tbl == [tickets EXCEPT ![id] = UpdatedRow(tickets[id], t, clock)]
     IN
     IF ~req[p].req.bodyOk
       THEN Catch(p, "Invalid JSON body") /\ UNCHANGED <<tickets, activity, log>>
     ELSE IF id \notin DOMAIN tickets THEN TicketNotFound(p)
     ELSE LogActivity(p, t, tbl, 200, tbl[id])
  /\ UNCHANGED <<settings, clock, req_method, ai>>

\* DELETE /api/tickets/:id, after await parseBody(req).catch(() => ({}))
DeleteTicketById(p) ==
  /\ Resumes(p, "DELETE /api/tickets/:id")
  /\ LET body == IF req[p].req.bodyOk THEN req[p].req.body ELSE NoParams
         id == req[p].m.id
     IN
     IF id \notin DOMAIN tickets THEN TicketNotFound(p)
     ELSE LogActivity(p, body, DeleteTicket(tickets, id), 200,
                      [ok |-> TRUE, deleted |-> id])
  /\ UNCHANGED <<settings, clock, req_method, ai>>

\* GET /api/tickets
GetTickets(p, r) == Answer(p, r, "GET /api/tickets", 200, AllTickets)

\* no route matched: sendJSON(res, 404, { error: "Not found" })
NotFound(p, r) == Answer(p, r, "404", 404, [error |-> "Not found"])

\* GET /api/activity
GetActivity(p, r) == Answer(p, r, "GET /api/activity", 200, RecentActivity(activity))

(***************************************************************************)
(* Full sync.                                                              *)
(***************************************************************************)
\* data.tickets || [], data.activity || []
ListOr(data, k) == IF Has(data, k) THEN data[k] ELSE << >>

\* deleteAllTickets.run()
DeleteAllTicketsMutant == tickets

DeleteAllTickets == EmptyTable

\* the parameter object of insertActivity.run in bulkSync
SyncActivityParams(a, c) ==
  [action |-> Or(a, "action", ""), ticketId |-> Or(a, "ticketId", NULL),
   title |-> Or(a, "title", ""), time |-> Or(a, "time", toISOString(c))]

\* for (const t of data.tickets) insertTicket.run({...}), from the i-th ticket
\* on; the i-th ticket's two new Date() are readings 2i-1 and 2i
RECURSIVE SyncTickets(_, _, _, _)
SyncTickets(tbl, ts, i, tickAt) ==
  IF i > Len(ts) THEN [ok |-> TRUE, tbl |-> tbl]
  ELSE IF InsertTicketThrows(tbl, ts[i]) THEN [ok |-> FALSE, tbl |-> tbl]
  ELSE SyncTickets(InsertTicket(tbl, ts[i], Reading(2 * i - 1, tickAt),
                                Reading(2 * i, tickAt)),
                   ts, i + 1, tickAt)

\* for (const a of data.activity) insertActivity.run({...}) into the emptied table
SyncActivity(ts, as, tickAt) ==
  [i \in 1..Len(as) |-> SyncActivityParams(as[i], Reading(2 * Len(ts) + i, tickAt))]

\* db.transaction: what the tables hold when the wrapped function threw
RollbackMutant(before, partial) == partial

Rollback(before, partial) == before

\* bulkSync(data): the tables it leaves, and whether it returned or threw
BulkSync(data, tickAt) ==
  LET ts == ListOr(data, "tickets")
      as == ListOr(data, "activity")
      r == SyncTickets(DeleteAllTickets, ts, 1, tickAt)
  IN IF r.ok
       THEN [ok |-> TRUE, tickets |-> r.tbl, activity |-> SyncActivity(ts, as, tickAt)]
       ELSE [ok |-> FALSE] @@
            Rollback([tickets |-> tickets, activity |-> activity],
                     [tickets |-> r.tbl, activity |-> << >>])

\* the slots in which bulkSync(data) calls new Date()
SyncCalled(data) == Called(ListOr(data, "tickets"), ListOr(data, "activity"))

\* PUT /api/data, after await parseBody
PutData(p) ==
  /\ Resumes(p, "PUT /api/data")
  /\ IF ~req[p].req.bodyOk
       THEN Catch(p, "Invalid JSON body") /\ UNCHANGED <<tickets, activity, log, clock>>
     ELSE \E tickAt \in {0} \cup SyncCalled(req[p].req.body) :
       LET r == BulkSync(req[p].req.body, tickAt) IN
       /\ clock' = ClockAfter(SyncCalled(req[p].req.body), tickAt)
       /\ tickets' = r.tickets
       /\ activity' = r.activity
       /\ log' = IF r.ok THEN r.activity ELSE log
       /\ IF r.ok THEN Reply(p, 200, [ok |-> TRUE])
                  ELSE Catch(p, "insertTicket failed")
  /\ UNCHANGED <<settings, req_method, ai>>

\* the body of the response to GET /api/data
DataBody ==
  [tickets |-> AllTickets, activity |-> RecentActivity(activity), kbNotes |-> EmptyTable]

\* GET /api/data
GetData(p, r) == Answer(p, r, "GET /api/data", 200, DataBody)

(***************************************************************************)
(* Settings.  A setting's value is the sequence of its characters.         *)
(***************************************************************************)
\* truthiness of a string given as its characters
NonEmpty(v) == v # << >>

\* stmts.getSetting.get(key)?.value, with undefined as the empty string
SettingValue(key) == IF Has(settings, key) THEN settings[key] ELSE << >>

\* value.slice(-4)
SliceLast(value) == LastN(value, HintLen)

\* "sk-ant-***" and "sk-***", each * standing for the bullet U+2022
AnthropicHintPrefix == <<"s", "k", "-", "a", "n", "t", "-", "*", "*", "*">>
OpenAIHintPrefix == <<"s", "k", "-", "*", "*", "*">>

DefaultTheme == <<"m", "a", "r", "s", "h", "m", "a", "l", "l", "o", "w">>

\* the body of the response to GET /api/settings
SettingsBody ==
  [theme |-> IF Has(settings, "theme") THEN settings["theme"] ELSE DefaultTheme,
   hasAnthropicKey |-> NonEmpty(SettingValue("anthropic_api_key")),
   anthropicKeyHint |->
     IF NonEmpty(SettingValue("anthropic_api_key"))
       THEN AnthropicHintPrefix \o SliceLast(settings["anthropic_api_key"])
       ELSE << >>,
   hasOpenAIKey |-> NonEmpty(SettingValue("openai_api_key")),
   openaiKeyHint |->
     IF NonEmpty(SettingValue("openai_api_key"))
       THEN OpenAIHintPrefix \o SliceLast(settings["openai_api_key"])
       ELSE << >>]

\* GET /api/settings
GetSettings(p, r) == Answer(p, r, "GET /api/settings", 200, SettingsBody)

\* upsertSetting.run(key, value)
Upsert(tbl, key, value) == [k \in DOMAIN tbl \cup {key} |-> IF k = key THEN value ELSE tbl[k]]

\* DELETE FROM settings WHERE key = ...
DeleteSetting(tbl, key) == [k \in DOMAIN tbl \ {key} |-> tbl[k]]

\* if (body[key] !== undefined) { body[key] ? upsert : delete }
PutKey(tbl, body, key) ==
  IF ~Has(body, key) THEN tbl
  ELSE IF NonEmpty(body[key]) THEN Upsert(tbl, key, body[key])
  ELSE DeleteSetting(tbl, key)

\* if (body.theme) upsertSetting.run("theme", body.theme)
PutTheme(tbl, body) ==
  IF Has(body, "theme") /\ NonEmpty(body["theme"]) THEN Upsert(tbl, "theme", body["theme"])
  ELSE tbl

\* PUT /api/settings, after await parseBody
PutSettings(p) ==
  /\ Resumes(p, "PUT /api/settings")
  /\ IF ~req[p].req.bodyOk
       THEN Catch(p, "Invalid JSON body") /\ UNCHANGED settings
       ELSE /\ settings' = PutKey(PutKey(PutTheme(settings, req[p].req.body),
                                          req[p].req.body, "anthropic_api_key"),
                                  req[p].req.body, "openai_api_key")
            /\ Reply(p, 200, [ok |-> TRUE])
  /\ UNCHANGED <<tickets, activity, clock, req_method, ai, log>>

(***************************************************************************)
(* AI prompt proxy.                                                        *)
(***************************************************************************)
\* const provider = body.provider || "anthropic"
Provider(body) == Or(body, "provider", "anthropic")

\* the API key the handler resolves (empty: none)
ResolveKeyMutant(body) ==
  IF Has(body, "apiKey") /\ NonEmpty(body["apiKey"]) THEN body["apiKey"]
  ELSE IF Provider(body) = "openai" THEN SettingValue("openai_api_key")
  ELSE SettingValue("anthropic_api_key")

ResolveKey(body) ==
  IF Provider(body) = "openai" THEN SettingValue("openai_api_key")
  ELSE IF Has(body, "apiKey") /\ NonEmpty(body["apiKey"]) THEN body["apiKey"]
  ELSE SettingValue("anthropic_api_key")

\* the message of the 400 response
KeyMissing(body) ==
  IF Provider(body) = "openai"
    THEN "No OpenAI API key configured. Add one in the Prompt Lab settings."
    ELSE "No Anthropic API key configured. Add one in the Prompt Lab settings."

Hostname(body) == IF Provider(body) = "openai" THEN "api.openai.com" ELSE "api.anthropic.com"

\* `API error ${apiRes.statusCode}`
ApiError(statusCode) ==
  CASE statusCode = 429 -> "API error 429"
    [] statusCode = 503 -> "API error 503"
    [] OTHER -> "API error"

\* what apiRes.on("end") passes to resolve; up is the upstream's reply:
\* its statusCode, whether its body is JSON, and the JSON's error.message and
\* content text when it has them
OnEnd(hostname, up) ==
  IF ~up.json
    THEN [error |-> IF hostname = "api.openai.com" THEN "Failed to parse OpenAI response"
                    ELSE "Failed to parse API response"]
  ELSE IF up.statusCode >= 400
    THEN [error |-> Or(up, "message", ApiError(up.statusCode)), status |-> up.statusCode]
  ELSE [ok |-> TRUE, content |-> Or(up, "text", "")]

\* what apiReq.on("error") passes to resolve
OnError(message) == [error |-> message]

\* resolve(value): the first call settles the promise, later calls do nothing
Resolve(call, value) ==
  IF call.settled THEN call ELSE [call EXCEPT !.settled = TRUE, !.result = value]

\* POST /api/ai/prompt, after await parseBody: answer 400, or issue the
\* outbound request and await its promise
AiPrompt(p) ==
  /\ Resumes(p, "POST /api/ai/prompt")
  /\ IF ~req[p].req.bodyOk
       THEN Catch(p, "Invalid JSON body") /\ ai' = [ai EXCEPT ![p].sent = @ + 1]
     ELSE IF ~NonEmpty(ResolveKey(req[p].req.body))
       THEN /\ Reply(p, 400, [error |-> KeyMissing(req[p].req.body)])
            /\ ai' = [ai EXCEPT ![p].sent = @ + 1]
     ELSE /\ ai' = [ai EXCEPT ![p] =
                      [calls |-> ai[p].calls + 1, sent |-> ai[p].sent,
                       hostname |-> Hostname(req[p].req.body),
                       key |-> ResolveKey(req[p].req.body),
                       settled |-> FALSE, result |-> EmptyTable,
                       ended |-> FALSE, errored |-> FALSE,
                       up |-> EmptyTable, failure |-> "none"]]
          /\ pc' = [pc EXCEPT ![p] = "upstream"]
          /\ res' = NoRes
          /\ UNCHANGED req
  /\ UNCHANGED <<tickets, activity, settings, clock, req_method, log>>

Called1(p) == ai[p].calls > 0

\* the upstream's response ends: apiRes.on("end")
UpstreamEnd(p, up) ==
  /\ Called1(p) /\ ~ai[p].ended
  /\ ai' = [ai EXCEPT ![p] =
              [Resolve(ai[p], OnEnd(ai[p].hostname, up)) EXCEPT
                 !.ended = TRUE,
                 !.up = IF ai[p].settled THEN ai[p].up ELSE up]]
  /\ res' = NoRes
  /\ UNCHANGED <<tickets, activity, settings, clock, req_method, pc, req, log>>

\* the outbound request fails: apiReq.on("error")
UpstreamError(p, message) ==
  /\ Called1(p) /\ ~ai[p].errored
  /\ ai' = [ai EXCEPT ![p] =
              [Resolve(ai[p], OnError(message)) EXCEPT
                 !.errored = TRUE,
                 !.failure = IF ai[p].settled THEN ai[p].failure ELSE "transport"]]
  /\ res' = NoRes
  /\ UNCHANGED <<tickets, activity, settings, clock, req_method, pc, req, log>>

\* the handler resumes with the promise's value and relays it
AiRelay(p) ==
  /\ pc[p] = "upstream" /\ ai[p].settled
  /\ LET result == ai[p].result IN
     IF Has(result, "error") /\ Truthy(result.error)
       THEN Reply(p, IF Has(result, "status") /\ result.status # 0 THEN result.status ELSE 500,
                  [error |-> result.error])
       ELSE Reply(p, 200, result)
  /\ ai' = [ai EXCEPT ![p].sent = @ + 1]
  /\ UNCHANGED <<tickets, activity, settings, clock, req_method, log>>

(***************************************************************************)
(* Initial state: the tables as first created, no request in flight.       *)
(***************************************************************************)
Init ==
  /\ tickets = EmptyTable
  /\ activity = << >>
  /\ settings = EmptyTable
  /\ clock = 0
  /\ req_method = ""
  /\ pc = [p \in Procs |-> "idle"]
  /\ req = [p \in Procs |-> NoReq]
  /\ ai = [p \in Procs |-> NoCall]
  /\ res = NoRes
  /\ log = << >>

(***************************************************************************)
(* Requests of the ticket CRUD endpoints.                                  *)
(***************************************************************************)
Ids == {"a", "b"}

Request(method, path, body) ==
  [method |-> method, path |-> path, bodyOk |-> TRUE, body |-> body]

\* a request whose body is not JSON
Malformed(method, path) ==
  [method |-> method, path |-> path, bodyOk |-> FALSE, body |-> EmptyTable]

Entry(action, id) ==
  [action |-> action, ticketId |-> id, title |-> "T", time |-> "2024"]

WithActivity(body, a) == body @@ ("_activity" :> a)

TitleOnly(id) == [id |-> id, title |-> "T"]

FullTicket(id) ==
  [id |-> id, title |-> "T2", description |-> "D", type |-> "bug",
   priority |-> "high", status |-> "closed", area |-> "A", subarea |-> "S",
   assignee |-> "U", files |-> "F", createdAt |-> "1999", updatedAt |-> "2000"]

PostBodies ==
  {TitleOnly("a"), TitleOnly("b"),
   WithActivity(FullTicket("a"), Entry("updated", "a")),
   [title |-> "T"],
   WithActivity(TitleOnly("b"), [action |-> "created"])}

PutBodies ==
  {[status |-> "done"],
   WithActivity([title |-> "T2", description |-> "", type |-> NULL,
                 updatedAt |-> "2001", id |-> "zz", createdAt |-> "1990"],
                Entry("updated", "a")),
   WithActivity([priority |-> "high"], [action |-> "updated"])}

DeleteBodies == {EmptyTable, WithActivity(EmptyTable, Entry("updated", "a"))}

TicketPath(id) == <<"", "api", "tickets", id>>

TicketRequests ==
  {Request("POST", Path("api", "tickets"), b) : b \in PostBodies}
  \cup {Malformed("POST", Path("api", "tickets"))}
  \cup {Request("PUT", TicketPath(id), b) : id \in Ids, b \in PutBodies}
  \cup {Malformed("PUT", TicketPath(id)) : id \in Ids}
  \cup {Request("DELETE", TicketPath(id), b) : id \in Ids, b \in DeleteBodies}
  \cup {Malformed("DELETE", TicketPath(id)) : id \in Ids}

\* a request that will append an activity row is sent only while the table
\* is short of MaxActivityRows rows
Room(r) ==
  IF ~Has(r.body, "_activity") THEN TRUE
  ELSE IF InsertActivityThrows(r.body["_activity"]) THEN TRUE
  ELSE Len(activity) < MaxActivityRows

GetRequest(path) == Request("GET", path, EmptyTable)

NextTickets ==
  \/ \E r \in TicketRequests : Room(r) /\ Receive(1, r)
  \/ PostTicket(1)
  \/ PutTicket(1)
  \/ DeleteTicketById(1)
  \/ GetTickets(1, GetRequest(Path("api", "tickets")))
  \/ Tick

SpecTickets == Init /\ [][NextTickets]_vars

(***************************************************************************)
(* Claims on the ticket endpoints (SpecTickets).                           *)
(***************************************************************************)
\* the step in which the handler of p, suspended at await parseBody on the
\* given route, runs to its return
Returns(p, route) == Resumes(p, route) /\ pc'[p] = "idle"

DefaultRow(id, title, createdAt, updatedAt) ==
  [id |-> id, title |-> title, description |-> "", type |-> "feature",
   priority |-> "medium", status |-> "open", area |-> "", subarea |-> "",
   assignee |-> "", files |-> "", createdAt |-> createdAt, updatedAt |-> updatedAt]

\* C4: a POST /api/tickets whose body carries only id and title stores and
\* returns the record with every documented default and createdAt = updatedAt.
C4_TitleOnlyCreate ==
  (res.route = "POST /api/tickets" /\ res.status = 201
     /\ DOMAIN res.req.body = {"id", "title"})
  => /\ res.body = DefaultRow(res.req.body.id, res.req.body.title,
                              res.body.createdAt, res.body.createdAt)
     /\ tickets[res.req.body.id] = res.body

\* C5: a PUT /api/tickets/:id on an existing ticket leaves every ticket field
\* absent from the body (and id and createdAt always) at its prior value,
\* sets each field the body supplies (a null counts as absent), leaves every
\* other ticket unchanged, and sets updatedAt to the body's updatedAt or else
\* to the time of the update.
C5_PartialUpdate ==
  [][\A p \in Procs :
       (Returns(p, "PUT /api/tickets/:id") /\ req[p].req.bodyOk
          /\ req[p].m.id \in DOMAIN tickets)
       => LET id == req[p].m.id
              t == req[p].req.body
          IN /\ DOMAIN tickets' = DOMAIN tickets
             /\ \A k \in DOMAIN tickets \ {id} : tickets'[k] = tickets[k]
             /\ \A f \in TicketFields :
                  tickets'[id][f] =
                    IF Has(t, f) /\ t[f] # NULL THEN t[f] ELSE tickets[id][f]
             /\ tickets'[id].id = tickets[id].id
             /\ tickets'[id].createdAt = tickets[id].createdAt
             /\ tickets'[id].updatedAt =
                  IF Has(t, "updatedAt") THEN t.updatedAt ELSE toISOString(clock)
    ]_vars

\* a partial update of ticket a, which held non-default values, while ticket
\* b is in the store
C5_Witness ==
  /\ res.route = "PUT /api/tickets/:id" /\ res.status = 200
  /\ res.req.body = [status |-> "done"]
  /\ res.body.id = "a" /\ res.body.title = "T2" /\ res.body.status = "done"
  /\ "b" \in DOMAIN tickets

\* C6: DELETE and PUT /api/tickets/:id for an id not in the store leave the
\* tickets and activity tables unchanged and answer 404 (the PUT: once its
\* body parsed), also when the body carries an _activity entry.
C6_UnknownId ==
  [][\A p \in Procs :
       ((Returns(p, "PUT /api/tickets/:id") \/ Returns(p, "DELETE /api/tickets/:id"))
          /\ req[p].m.id \notin DOMAIN tickets)
       => /\ tickets' = tickets
          /\ activity' = activity
          /\ (req[p].req.bodyOk \/ req[p].route = "DELETE /api/tickets/:id")
               => res'.status = 404 /\ res'.to = p
    ]_vars

\* an update of an unknown id whose body carries a well-formed _activity entry
C6_Witness ==
  /\ res.route = "PUT /api/tickets/:id" /\ res.status = 404
  /\ Has(res.req.body, "_activity")
  /\ ~InsertActivityThrows(res.req.body["_activity"])
  /\ res.req.path[4] \notin DOMAIN tickets

(***************************************************************************)
(* Full syncs with concurrent requests (SpecSync).                         *)
(***************************************************************************)
\* a snapshot whose activity holds n numbered entries
Numbered(n) ==
  [i \in 1..n |-> [action |-> "synced", ticketId |-> "a", title |-> "T",
                   time |-> toISOString(i)]]

Snapshots ==
  {EmptyTable,
   [tickets |-> <<FullTicket("a"), FullTicket("b")>>,
    activity |-> <<Entry("updated", "a")>>],
   [tickets |-> <<FullTicket("a"), TitleOnly("a")>>,
    activity |-> <<Entry("updated", "a")>>],
   [tickets |-> <<TitleOnly("b"), [title |-> "T"]>>],
   [tickets |-> <<TitleOnly("a")>>,
    activity |-> <<[action |-> "created"], Entry("updated", "a")>>],
   [activity |-> Numbered(ActivityLimit + 1)]}

SyncRequests ==
  {Request("PUT", Path("api", "data"), d) : d \in Snapshots}
  \cup {Malformed("PUT", Path("api", "data"))}
  \cup {Request("POST", Path("api", "tickets"),
                WithActivity(TitleOnly("b"), Entry("created", "b")))}

NextSync ==
  \/ \E p \in Procs, r \in SyncRequests : Room(r) /\ Receive(p, r)
  \/ \E p \in Procs : PutData(p)
  \/ \E p \in Procs : PostTicket(p)
  \/ \E p \in Procs : GetData(p, GetRequest(Path("api", "data")))
  \/ Tick

SpecSync == Init /\ [][NextSync]_vars

HasDuplicateOrMissingId(ts) ==
  \/ \E i \in 1..Len(ts) : ~Has(ts[i], "id")
  \/ \E i, j \in 1..Len(ts) : i < j /\ Has(ts[i], "id") /\ Has(ts[j], "id")
                                /\ ts[i].id = ts[j].id

\* C2: a PUT /api/data either lands whole (every row of before deleted, one
\* row per snapshot ticket and per snapshot activity entry inserted) or, when
\* an insert fails (a duplicate or missing ticket id), leaves both tables
\* exactly as before the request; and a GET /api/data between any two steps
\* of concurrent requests returns the tables as they then are.
C2_SyncAtomic ==
  [][/\ \A p \in Procs :
          (Returns(p, "PUT /api/data") /\ req[p].req.bodyOk)
          => LET ts == ListOr(req[p].req.body, "tickets")
                 as == ListOr(req[p].req.body, "activity")
             IN IF HasDuplicateOrMissingId(ts)
                  THEN /\ res'.status = 500
                       /\ tickets' = tickets
                       /\ activity' = activity
                  ELSE /\ res'.status = 200
                       /\ DOMAIN tickets' = {ts[i].id : i \in 1..Len(ts)}
                       /\ Len(activity') = Len(as)
      /\ res'.route = "GET /api/data"
          => /\ res'.body.tickets = {tickets[k] : k \in DOMAIN tickets}
             /\ res'.body.activity = RecentActivity(activity)
             /\ UNCHANGED <<tickets, activity>>
    ]_vars

\* a full sync fails over a non-empty store while another full sync is in flight
C2_Witness ==
  /\ res.route = "PUT /api/data" /\ res.status = 500 /\ res.req.bodyOk
  /\ DOMAIN tickets = {"a", "b"}
  /\ Len(activity) = 1
  /\ \E q \in Procs : pc[q] = "parseBody" /\ req[q].route = "PUT /api/data"

\* the value a snapshot gives column f, or else the column's insert default
Defaulted(o, f, d) == IF Has(o, f) /\ o[f] # "" /\ o[f] # NULL THEN o[f] ELSE d

TicketDefault(f) ==
  CASE f = "type" -> "feature"
    [] f = "priority" -> "medium"
    [] f = "status" -> "open"
    [] OTHER -> ""

\* row agrees with snapshot ticket t on every column t carries
AgreesWithTicket(row, t) ==
  /\ row.id = t.id
  /\ \A f \in TicketFields \cup {"createdAt", "updatedAt"} :
       (Has(t, f) /\ t[f] # "" /\ t[f] # NULL) => row[f] = t[f]

AgreesWithEntry(row, a) ==
  \A f \in ActivityColumns : (Has(a, f) /\ a[f] # "" /\ a[f] # NULL) => row[f] = a[f]

DistinctIds(ts) == ~HasDuplicateOrMissingId(ts)

\* C3 as claimed: after a successful PUT /api/data of a snapshot with distinct
\* ticket ids, GET /api/data returns exactly the snapshot's tickets and
\* exactly the snapshot's activity entries, none missing, with kbNotes {}.
C3_SyncThenGet_Claimed ==
  [][\A p \in Procs :
       (Returns(p, "PUT /api/data") /\ req[p].req.bodyOk /\ res'.status = 200)
       => LET ts == ListOr(req[p].req.body, "tickets")
              as == ListOr(req[p].req.body, "activity")
              got == DataBody'
          IN /\ \A row \in got.tickets : \E i \in 1..Len(ts) : AgreesWithTicket(row, ts[i])
             /\ \A i \in 1..Len(ts) : \E row \in got.tickets : AgreesWithTicket(row, ts[i])
             /\ \A j \in 1..Len(got.activity) :
                  \E i \in 1..Len(as) : AgreesWithEntry(got.activity[j], as[i])
             /\ \A i \in 1..Len(as) :
                  \E j \in 1..Len(got.activity) : AgreesWithEntry(got.activity[j], as[i])
             /\ Len(got.activity) = Len(as)
             /\ got.kbNotes = EmptyTable
    ]_vars

\* C3 as amended: after a successful PUT /api/data of a snapshot with distinct
\* ticket ids, GET /api/data returns one ticket per snapshot ticket, equal to
\* it with the insert defaults in its absent or empty columns (timestamps: the
\* time of the sync), and the last min(n, 100) of the snapshot's n activity
\* entries, defaults applied likewise, last entry first, with kbNotes {};
\* nothing of before the sync remains.
C3_SyncThenGet ==
  [][\A p \in Procs :
       (Returns(p, "PUT /api/data") /\ req[p].req.bodyOk /\ res'.status = 200)
       => LET ts == ListOr(req[p].req.body, "tickets")
              as == ListOr(req[p].req.body, "activity")
              got == DataBody'
              n == Min(Len(as), ActivityLimit)
              Now == {toISOString(c) : c \in clock..clock'}
          IN /\ DistinctIds(ts)
             /\ Cardinality(got.tickets) = Len(ts)
             /\ \A i \in 1..Len(ts) : \E row \in got.tickets :
                  /\ row.id = ts[i].id
                  /\ \A f \in TicketFields :
                       row[f] = Defaulted(ts[i], f, TicketDefault(f))
                  /\ \A f \in {"createdAt", "updatedAt"} :
                       \/ row[f] = Defaulted(ts[i], f, "")
                       \/ Defaulted(ts[i], f, "") = "" /\ row[f] \in Now
             /\ Len(got.activity) = n
             /\ \A j \in 1..n :
                  LET a == as[Len(as) + 1 - j]
                      row == got.activity[j]
                  IN /\ row.action = Defaulted(a, "action", "")
                     /\ row.ticketId = Defaulted(a, "ticketId", NULL)
                     /\ row.title = Defaulted(a, "title", "")
                     /\ \/ row.time = Defaulted(a, "time", "")
                        \/ Defaulted(a, "time", "") = "" /\ row.time \in Now
             /\ got.kbNotes = EmptyTable
    ]_vars

\* a sync of a one-ticket, two-entry snapshot with absent columns succeeded
\* while a ticket created before it is no longer in the store
C3_Witness ==
  /\ res.route = "PUT /api/data" /\ res.status = 200
  /\ Has(res.req.body, "tickets") /\ Has(res.req.body, "activity")
  /\ Len(res.req.body.tickets) = 1 /\ Len(res.req.body.activity) = 2
  /\ DOMAIN tickets = {"a"}
  /\ Len(log) = 2 /\ DataBody.activity[1].action = "updated"

(***************************************************************************)
(* Activity retention over long runs (SpecRetention): one client at a time *)
(* that numbers the activity entries it sends.                             *)
(***************************************************************************)
\* the entry the client sends next: numbered after those inserted so far
NextEntry ==
  [action |-> "updated", ticketId |-> "a", title |-> "T",
   time |-> toISOString(Len(log) + 1)]

RetentionRequests ==
  {Request("POST", Path("api", "tickets"), WithActivity(FullTicket("a"), NextEntry)),
   Request("PUT", TicketPath("a"),
           WithActivity([status |-> "done", updatedAt |-> "2001"], NextEntry)),
   Request("DELETE", TicketPath("a"), WithActivity(EmptyTable, NextEntry))}

RetentionSyncs ==
  {Request("PUT", Path("api", "data"), d) :
     d \in {EmptyTable, [activity |-> Numbered(ActivityLimit + 1)]}}

NextRetention ==
  \/ \E r \in RetentionRequests : Len(log) < MaxAppend /\ Receive(1, r)
  \/ \E r \in RetentionSyncs : Receive(1, r)
  \/ PostTicket(1)
  \/ PutTicket(1)
  \/ DeleteTicketById(1)
  \/ PutData(1)
  \/ GetActivity(1, GetRequest(Path("api", "activity")))

SpecRetention == Init /\ [][NextRetention]_vars

\* C1: the activity table never holds more than 100 rows.
C1_ActivityBounded == Len(activity) <= ActivityLimit

\* C7: with n entries inserted one by one since the activity table was last
\* empty, GET /api/activity returns the min(n, 100) entries inserted last,
\* the newest first.
C7_RecentActivity ==
  res.route = "GET /api/activity"
  => /\ res.status = 200
     /\ Len(res.body) = Min(Len(log), ActivityLimit)
     /\ \A i \in 1..Len(res.body) : res.body[i] = log[Len(log) + 1 - i]

\* 101 entries were appended one by one by ticket mutations, the table was
\* trimmed, and the activity list has been read
C7_Witness ==
  /\ res.route = "GET /api/activity"
  /\ Len(log) = ActivityLimit + 1
  /\ \A i \in 1..Len(log) : log[i].action = "updated"
  /\ Len(res.body) = ActivityLimit
  /\ res.body[1].time = toISOString(ActivityLimit + 1)

(***************************************************************************)
(* Settings (SpecSettings).                                                *)
(***************************************************************************)
SecretAlphabet == {"x", "y"}

\* the non-empty secrets of at most n characters
SecretsUpTo(n) == UNION {[1..k -> SecretAlphabet] : k \in 1..n}

SettingsBodies ==
  {[anthropic_api_key |-> v] : v \in SecretsUpTo(MaxSecretLen) \cup {<< >>}}
  \cup {[openai_api_key |-> v] : v \in {<< >>, <<"x", "y">>}}
  \cup {[theme |-> <<"d", "a", "r", "k">>,
         openai_api_key |-> <<"y", "y", "x", "x", "y", "y">>]}

SettingsRequests ==
  {Request("PUT", Path("api", "settings"), b) : b \in SettingsBodies}
  \cup {Malformed("PUT", Path("api", "settings"))}

NextSettings ==
  \/ \E r \in SettingsRequests : Receive(1, r)
  \/ PutSettings(1)
  \/ GetSettings(1, GetRequest(Path("api", "settings")))

SpecSettings == Init /\ [][NextSettings]_vars

\* s occurs in t
IsSubstring(s, t) ==
  \E i \in 0..(Len(t) - Len(s)) : SubSeq(t, i + 1, i + Len(s)) = s

SecretKeys == {"anthropic_api_key", "openai_api_key"}

\* C10: the response of GET /api/settings does not contain the full value of
\* a non-empty secret held in settings, whatever its length.
C10_SecretMasked ==
  res.route = "GET /api/settings"
  => \A k \in SecretKeys :
       (Has(settings, k) /\ NonEmpty(settings[k]))
       => /\ ~IsSubstring(settings[k], res.body.anthropicKeyHint)
          /\ ~IsSubstring(settings[k], res.body.openaiKeyHint)

(***************************************************************************)
(* AI prompt proxy (SpecAI).                                               *)
(***************************************************************************)
StoredAnthropicKey == <<"x", "y", "x", "y", "x">>
StoredOpenAIKey == <<"y", "y", "x", "x", "y", "y">>
BodyKey == <<"x", "x", "x", "x", "x", "x">>

AiSettingsBodies ==
  {[anthropic_api_key |-> StoredAnthropicKey], [anthropic_api_key |-> << >>],
   [openai_api_key |-> StoredOpenAIKey], [openai_api_key |-> << >>]}

AiBodies ==
  {EmptyTable, [apiKey |-> << >>], [apiKey |-> BodyKey],
   [provider |-> "openai"], [provider |-> "openai", apiKey |-> BodyKey],
   [provider |-> "anthropic", apiKey |-> BodyKey], [provider |-> "gemini"]}

AiRequests ==
  {Request("PUT", Path("api", "settings"), b) : b \in AiSettingsBodies}
  \cup {Request("POST", <<"", "api", "ai", "prompt">>, b) : b \in AiBodies}
  \cup {Malformed("POST", <<"", "api", "ai", "prompt">>)}

\* the replies of the upstream
UpstreamReplies ==
  {[statusCode |-> 200, json |-> TRUE, text |-> "hello"],
   [statusCode |-> 200, json |-> TRUE],
   [statusCode |-> 200, json |-> FALSE],
   [statusCode |-> 429, json |-> TRUE, message |-> "rate limited"],
   [statusCode |-> 429, json |-> TRUE],
   [statusCode |-> 429, json |-> FALSE]}

\* the messages of the transport errors (an AggregateError of failed
\* connection attempts has the empty message)
TransportErrors == {"", "ECONNRESET"}

NextAI ==
  \/ \E p \in Procs, r \in AiRequests : Receive(p, r)
  \/ \E p \in Procs : PutSettings(p)
  \/ \E p \in Procs : AiPrompt(p)
  \/ \E p \in Procs, up \in UpstreamReplies : UpstreamEnd(p, up)
  \/ \E p \in Procs, e \in TransportErrors : UpstreamError(p, e)
  \/ \E p \in Procs : AiRelay(p)

SpecAI == Init /\ [][NextAI]_vars

\* no key resolves for the request body: provider openai without a stored
\* openai_api_key, or another provider without apiKey in the body and without
\* a stored anthropic_api_key
NoKeyResolves(body) ==
  IF Has(body, "provider") /\ body.provider = "openai"
    THEN ~(Has(settings, "openai_api_key") /\ settings["openai_api_key"] # << >>)
    ELSE /\ ~(Has(body, "apiKey") /\ body["apiKey"] # << >>)
         /\ ~(Has(settings, "anthropic_api_key") /\ settings["anthropic_api_key"] # << >>)

\* C8: when no key resolves, POST /api/ai/prompt answers 400 and issues no
\* outbound request (a key in the body does not count for openai).
C8_NoKeyNoCall ==
  [][\A p \in Procs :
       (Resumes(p, "POST /api/ai/prompt") /\ pc'[p] # "parseBody"
          /\ req[p].req.bodyOk /\ NoKeyResolves(req[p].req.body))
       => /\ res'.to = p /\ res'.status = 400
          /\ pc'[p] = "idle"
          /\ ai'[p].calls = 0
    ]_vars

\* an openai request carrying a key in its body is refused while the store
\* holds an anthropic key only
C8_Witness ==
  /\ res.route = "POST /api/ai/prompt" /\ res.status = 400
  /\ res.req.body = [provider |-> "openai", apiKey |-> BodyKey]
  /\ Has(settings, "anthropic_api_key") /\ ~Has(settings, "openai_api_key")
  /\ ai[res.to].calls = 0

\* C9: a request whose key resolves issues exactly one upstream call and sends
\* exactly one response, in every order of the upstream's end and error
\* events: an error carrying the upstream's status (500 when the transport
\* failed or a successful status came with an unreadable body), or 200 with
\* content.
C9_OneCallOneOutcome ==
  /\ \A p \in Procs : ai[p].calls <= 1 /\ ai[p].sent <= 1
  /\ \A p \in Procs : (Called1(p) /\ pc[p] = "idle") => ai[p].sent = 1
  /\ (res.route = "POST /api/ai/prompt" /\ Called1(res.to))
     => \/ /\ Has(res.body, "error") /\ res.body.error # ""
           /\ res.status = IF ai[res.to].failure = "none" /\ ai[res.to].up.statusCode >= 400
                             THEN ai[res.to].up.statusCode ELSE 500
        \/ /\ res.status = 200 /\ Has(res.body, "content")

(***************************************************************************)
(* Routing under concurrent requests (SpecRouting).                        *)
(***************************************************************************)
\* pathnames around "/api/tickets/:id": "/api/tickets/a", "/api/tickets/"
\* (empty last part), "/api/tickets/%61", "/api/tickets/a/b", "/api/x/a",
\* "/api/tickets"
RoutingPaths ==
  {TicketPath("a"), TicketPath(""), TicketPath("%61"),
   <<"", "api", "tickets", "a", "b">>, <<"", "api", "x", "a">>,
   Path("api", "tickets")}

RoutingRequests ==
  {Request(method, path, [status |-> "done"]) :
     method \in {"PUT", "DELETE"}, path \in RoutingPaths}
  \cup {Request("POST", Path("api", "tickets"), TitleOnly("a")),
        Request("POST", <<"", "api", "ai", "prompt">>, [apiKey |-> BodyKey])}

NextRouting ==
  \/ \E p \in Procs, r \in RoutingRequests : Receive(p, r)
  \/ \E p \in Procs, r \in RoutingRequests : NotFound(p, r)
  \/ \E p \in Procs : PostTicket(p)
  \/ \E p \in Procs : PutTicket(p)
  \/ \E p \in Procs : DeleteTicketById(p)
  \/ \E p \in Procs : AiPrompt(p)
  \/ \E p \in Procs : UpstreamEnd(p, [statusCode |-> 200, json |-> TRUE, text |-> "hello"])
  \/ \E p \in Procs : UpstreamError(p, "ECONNRESET")
  \/ \E p \in Procs : AiRelay(p)

SpecRouting == Init /\ [][NextRouting]_vars

TicketRoutes == {"PUT /api/tickets/:id", "DELETE /api/tickets/:id"}

\* C11: a path is matched to "/api/tickets/:id" only when it has the
\* pattern's number of parts, its literal parts are the pattern's, and the
\* part facing :id is non-empty and bound percent-decoded ("/api/tickets/"
\* does not match).
C11_MatchRoute ==
  \A p \in Procs :
    req[p].route \in TicketRoutes
    => /\ Len(req[p].req.path) = Len(TicketPattern)
       /\ \A i \in 1..3 : req[p].req.path[i] = TicketPattern[i].text
       /\ req[p].req.path[4] # ""
       /\ req[p].m = [id |-> decodeURIComponent(req[p].req.path[4])]

\* C13: whatever requests are in flight, the req_method that matchRoute reads
\* is the method of the request being routed, and a request reaches the PUT
\* (DELETE) /api/tickets/:id handler only if its method is PUT (DELETE).
C13_RoutingMethod ==
  [][\A p \in Procs :
       (pc[p] = "idle" /\ pc'[p] = "parseBody")
       => /\ RoutingMethod = req'[p].req.method
          /\ req'[p].route = "PUT /api/tickets/:id" => req'[p].req.method = "PUT"
          /\ req'[p].route = "DELETE /api/tickets/:id" => req'[p].req.method = "DELETE"
    ]_vars

\* a DELETE has been routed while the other request, a PUT, is suspended at
\* await parseBody
C13_Witness ==
  /\ pc[1] = "parseBody" /\ req[1].route = "PUT /api/tickets/:id"
  /\ pc[2] = "parseBody" /\ req[2].route = "DELETE /api/tickets/:id"
  /\ req_method = "DELETE"

(***************************************************************************)
(* Error responses of the ticket endpoints (SpecTickets).                  *)
(***************************************************************************)
ClientError == 400..499

\* C12: a POST or PUT request whose body is malformed JSON, and a POST
\* /api/tickets whose body has no id, get a 4xx response, never a 5xx.
C12_ClientInputError ==
  IF res.route = "none" THEN TRUE
  ELSE /\ (res.req.method \in {"POST", "PUT"} /\ ~res.req.bodyOk)
          => res.status \in ClientError
       /\ (res.route = "POST /api/tickets" /\ res.req.bodyOk
             /\ ~Has(res.req.body, "id"))
          => res.status \in ClientError

TicketMutations ==
  {"POST /api/tickets", "PUT /api/tickets/:id", "DELETE /api/tickets/:id"}

\* C16: a ticket mutation answered with 500 leaves the tickets table and the
\* activity table as they were before the request, also when the insert of
\* the body's _activity entry fails after the ticket statement has run.
C16_FailedMutationNoEffect ==
  [][\A p \in Procs :
       (pc[p] = "parseBody" /\ req[p].route \in TicketMutations
          /\ pc'[p] = "idle" /\ res'.status = 500)
       => tickets' = tickets /\ activity' = activity
    ]_vars

(***************************************************************************)
(* Concurrent updates of one ticket (SpecLostUpdate).                      *)
(***************************************************************************)
\* two updates of ticket a, each supplying one field and its activity entry
StatusPut == WithActivity([status |-> "done"], Entry("status", "a"))
AssigneePut == WithActivity([assignee |-> "V"], Entry("assignee", "a"))

LostUpdateRequests ==
  {Request("POST", Path("api", "tickets"), TitleOnly("a")),
   Request("PUT", TicketPath("a"), StatusPut),
   Request("PUT", TicketPath("a"), AssigneePut)}

NextLostUpdate ==
  \/ \E p \in Procs, r \in LostUpdateRequests : Room(r) /\ Receive(p, r)
  \/ \E p \in Procs : PostTicket(p)
  \/ \E p \in Procs : PutTicket(p)
  \/ Tick

SpecLostUpdate == Init /\ [][NextLostUpdate]_vars

Logged(a) == \E i \in 1..Len(log) : log[i] = a

\* C14: once two PUT /api/tickets/a requests, one supplying status and one
\* supplying assignee, have both completed, in whatever interleaving of
\* their handlers, the stored ticket carries both new values.
C14_NoLostUpdate ==
  (Logged(Entry("status", "a")) /\ Logged(Entry("assignee", "a")))
  => /\ Has(tickets, "a")
     /\ tickets["a"].status = "done"
     /\ tickets["a"].assignee = "V"

\* the second of the two updates has just been answered
C14_Witness ==
  /\ Logged(Entry("status", "a")) /\ Logged(Entry("assignee", "a"))
  /\ res.route = "PUT /api/tickets/:id" /\ res.status = 200
  /\ res.body.status = "done" /\ res.body.assignee = "V"
  /\ tickets["a"] = res.body

(***************************************************************************)
(* Full sync of what GET /api/data returned (SpecRoundTrip).               *)
(***************************************************************************)
\* the arrays that list the rows of a set, each once
Orderings(S) ==
  {seq \in [1..Cardinality(S) -> S] : {seq[i] : i \in 1..Cardinality(S)} = S}

\* the bodies GET /api/data can return in this state: the tickets as an array
\* (the model does not order rows by createdAt), the activity newest first
GetDataBodies ==
  {[tickets |-> ts, activity |-> RecentActivity(activity), kbNotes |-> EmptyTable] :
     ts \in Orderings(AllTickets)}

RoundTripSeeds ==
  {Request("POST", Path("api", "tickets"), b) :
     b \in {TitleOnly("a"),
            WithActivity(FullTicket("a"), Entry("created", "a")),
            WithActivity(FullTicket("b"), Entry("created", "b"))}}

\* the client sends back, unchanged, the body GET /api/data returns
Resync(p) ==
  \E b \in GetDataBodies : Receive(p, Request("PUT", Path("api", "data"), b))

NextRoundTrip ==
  \/ \E r \in RoundTripSeeds : Room(r) /\ Receive(1, r)
  \/ PostTicket(1)
  \/ Resync(1)
  \/ PutData(1)
  \/ GetData(1, GetRequest(Path("api", "data")))
  \/ Tick

SpecRoundTrip == Init /\ [][NextRoundTrip]_vars

\* C15: a PUT /api/data whose body is what GET /api/data returns leaves the
\* body of GET /api/data unchanged: the same tickets and the same activity
\* list in the same order.
C15_SyncRoundTrip ==
  [][\A p \in Procs :
       (Resumes(p, "PUT /api/data") /\ req[p].req.body \in GetDataBodies
          /\ pc'[p] = "idle" /\ res'.status = 200)
       => DataBody' = DataBody
    ]_vars

====
